---- MODULE Spec2Model ----
(***************************************************************************)
(* A model of the planar geometry kernel rust_geometry: the convex hull    *)
(* (src/src/convex_hull.rs), Line::proj (src/src/line.rs) and circum       *)
(* (src/src/round.rs), over the Point algebra of src/src/point.rs.         *)
(*                                                                         *)
(* Numbers.  An f64 is modelled exactly as an integer multiple of a power  *)
(* of two: in a run with scale = k (other than 31, see below), a           *)
(* coordinate n stands for the f64                                         *)
(* n * 2^-k, a product of two coordinates (a cross or dot product, a       *)
(* squared length) m stands for m * 2^-(2k).  On the small integers used   *)
(* here every +, -, * of the code is exact in f64, so the integer          *)
(* arithmetic below is the arithmetic of the code.  EPS = 1e-9 is not a    *)
(* multiple of 2^-k, so a comparison against EPS is a comparison against   *)
(* floor(EPS / unit): for an integer x,                                    *)
(*      x <  EPS  <=>  x <=  floor(EPS/unit)                               *)
(*      x > -EPS  <=>  x >= -floor(EPS/unit)                               *)
(* scale = 0: coordinates are whole numbers; EPS is below one unit, so     *)
(*   every comparison against EPS is the exact comparison against zero.    *)
(* scale = 16: coordinates are multiples of 2^-16 (about 1.5e-5); two      *)
(*   coordinates are eq_f64 only when equal, and a cross product is        *)
(*   within EPS of zero when it is at most 4 units (1e-9 * 2^32 = 4.29).   *)
(* scale = 30: coordinates are multiples of 2^-30 (about 9.3e-10);         *)
(*   coordinates that differ by one unit are eq_f64, and a cross product   *)
(*   is within EPS of zero up to 1152921504 units (1e-9 * 2^60).           *)
(* scale = 31: a thin strip.  An x n stands for n * 2^-31 (about           *)
(*   4.7e-10), a y n for the whole number n, and a cross product m for     *)
(*   m * 2^-31.  Two x are eq_f64 when at most 2 units apart (1e-9 * 2^31  *)
(*   = 2.15), two y only when equal, and a cross product is within EPS of  *)
(*   zero when it is at most 2 units.  Only the hull is run here: a dot    *)
(*   product has no single unit.                                           *)
(***************************************************************************)
EXTENDS Integers, Sequences, FiniteSets, TLC

VARIABLES
    scale,    \* the binary exponent k of the run's coordinates (see above)
    pc,       \* position in get_convex_hull and its queries, or "geom"
    pts,      \* get_convex_hull's argument, as passed
    sorted,   \* pts after pts.sort_by
    idx,      \* number of points of sorted the for loop has consumed
    u_hull,   \* the upper chain (ucnt = Len(u_hull))
    d_hull,   \* the lower chain (dcnt = Len(d_hull))
    call,     \* the query or pure function applied: [op, args]
    ret       \* what it returned

vars == <<scale, pc, pts, sorted, idx, u_hull, d_hull, call, ret>>

\* Longest input of get_convex_hull.
MaxPts == 4
\* Longest input of get_convex_hull in the thin strip (scale = 31).
MaxThin == 5
\* Largest x and y of the points handed to pt_cmp, Line::proj and circum.
MaxX == 2
MaxY == 4

Scales == {0, 16, 30}
HullScales == Scales \cup {31}

\* The points get_convex_hull is run on: two rows of three and one point
\* between them.
HullPts == {p \in [x : 0..2, y : 0..3] : p.y \in {0, 3} \/ (p.x = 1 /\ p.y = 1)}

GeomPts == [x : 0..MaxX, y : 0..MaxY]

Inputs == UNION {[1..n -> HullPts] : n \in 0..MaxPts}

\* The points get_convex_hull is run on in the thin strip: the upper row,
\* the point between the rows and one point to the right on the lower row.
ThinPts == {p \in [x : 0..3, y : 0..3] :
               (p.y = 3 /\ p.x <= 2) \/ (p.x = 1 /\ p.y = 1) \/ (p.x = 3 /\ p.y = 0)}

ThinInputs == UNION {[1..n -> ThinPts] : n \in 0..MaxThin}

HullInputs(k) == IF k = 31 THEN ThinInputs ELSE Inputs

Abs(n) == IF n < 0 THEN -n ELSE n

Last(s) == s[Len(s)]
Front(s) == SubSeq(s, 1, Len(s) - 1)

---------------------------------------------------------------------------
(* lib.rs *)

\* floor(EPS / unit) for EPS = 1e-9, the unit being that of an x
\* coordinate (dim = "x"), of a y coordinate (dim = "y") or of the product
\* of an x and a y (dim = "xy") in a run of scale k.
EPS(k, dim) ==
    CASE k = 0 -> 0
      [] k = 16 /\ dim \in {"x", "y"} -> 0
      [] k = 16 /\ dim = "xy" -> 4
      [] k = 30 /\ dim \in {"x", "y"} -> 1
      [] k = 30 /\ dim = "xy" -> 1152921504
      [] k = 31 /\ dim = "x" -> 2
      [] k = 31 /\ dim = "y" -> 0
      [] k = 31 /\ dim = "xy" -> 2

\* floor(EPS^2 / 2^-(2k)): sqrt(s) < EPS exactly when s < EPS^2.
EPS_squared(k) == IF k = 30 THEN 1 ELSE 0

\* x < EPS
lt_EPS(x, dim) == x <= EPS(scale, dim)
\* x > -EPS
gt_neg_EPS(x, dim) == x >= -EPS(scale, dim)

\* (a - b).abs() < EPS
eq_f64(a, b, dim) == lt_EPS(Abs(a - b), dim)

---------------------------------------------------------------------------
(* point.rs *)

Pt(x, y) == [x |-> x, y |-> y]

\* PartialEq for Point
point_eq(a, b) == eq_f64(a.x, b.x, "x") /\ eq_f64(a.y, b.y, "y")

add(a, b) == Pt(a.x + b.x, a.y + b.y)
sub(a, b) == Pt(a.x - b.x, a.y - b.y)
\* Mul<f64>
scale_by(a, k) == Pt(a.x * k, a.y * k)
\* Mul: dot product
dot(a, b) == a.x * b.x + a.y * b.y
\* BitXor: cross product
cross(a, b) == a.x * b.y - a.y * b.x
sqrdis(a) == dot(a, a)

---------------------------------------------------------------------------
(* convex_hull.rs *)

\* A plausible slip: the x branch orders by y.
pt_cmp_xy(a, b) ==
    IF ~eq_f64(a.x, b.x, "x")
    THEN (IF a.y < b.y THEN "Less" ELSE "Greater")
    ELSE IF ~eq_f64(a.y, b.y, "y")
    THEN (IF a.y < b.y THEN "Less" ELSE "Greater")
    ELSE "Equal"

pt_cmp(a, b) ==
    IF ~eq_f64(a.x, b.x, "x")
    THEN (IF a.x < b.x THEN "Less" ELSE "Greater")
    ELSE IF ~eq_f64(a.y, b.y, "y")
    THEN (IF a.y < b.y THEN "Less" ELSE "Greater")
    ELSE "Equal"

\* pts.sort_by(|a, b| Self::pt_cmp(a, b)): a stable sort, which on a slice
\* of at most 20 elements is an insertion sort that moves each element in
\* turn leftwards into the sorted prefix before it, past every element it
\* is Less than.  The result is the sorted order when pt_cmp orders the
\* points consistently, and is whatever these moves leave otherwise.
is_less(a, b) == pt_cmp(a, b) = "Less"

RECURSIVE insert_tail(_, _)
insert_tail(v, x) ==
    IF Len(v) > 0 /\ is_less(x, Last(v))
    THEN Append(insert_tail(Front(v), x), Last(v))
    ELSE Append(v, x)

RECURSIVE sort_shift_left(_)
sort_shift_left(v) ==
    IF Len(v) = 0 THEN <<>> ELSE insert_tail(sort_shift_left(Front(v)), Last(v))

\* A plausible bug: the sort is left out.
sort_by_missing(v) == v

sort_by(v) == sort_shift_left(v)

\* Plausible bugs: the turn tests without the tolerance.
u_pop_no_eps(a, b, p) == cross(sub(b, a), sub(p, a)) > 0
d_pop_no_eps(a, b, p) == cross(sub(b, a), sub(p, a)) < 0

\* The two while conditions of the sweep, for the top two points a, b of a
\* chain and the incoming point p.
u_pop(a, b, p) == gt_neg_EPS(cross(sub(b, a), sub(p, a)), "xy")
d_pop(a, b, p) == lt_EPS(cross(sub(b, a), sub(p, a)), "xy")

RECURSIVE u_while(_, _)
u_while(h, p) ==
    IF Len(h) >= 2 /\ u_pop(h[Len(h) - 1], h[Len(h)], p)
    THEN u_while(Front(h), p)
    ELSE h

RECURSIVE d_while(_, _)
d_while(h, p) ==
    IF Len(h) >= 2 /\ d_pop(h[Len(h) - 1], h[Len(h)], p)
    THEN d_while(Front(h), p)
    ELSE h

Panic == [kind |-> "Panic"]
Bool(b) == [kind |-> "Bool", val |-> b]

\* ConvexHull::valid.  u[0], d[0] index an empty Vec out of range; ulen - 2
\* and dlen - 2 underflow usize on a chain of one point (a panic in a debug
\* build, and in a release build a range that runs off the end of the Vec).
valid(u, d) ==
    LET ulen == Len(u)
        dlen == Len(d)
        u_ok(i) == ~gt_neg_EPS(cross(sub(u[i + 1], u[i]), sub(u[i + 2], u[i])), "xy")
        d_ok(i) == ~lt_EPS(cross(sub(d[i + 1], d[i]), sub(d[i + 2], d[i])), "xy")
    IN  IF ulen = 0 \/ dlen = 0 THEN Panic
        ELSE IF ~point_eq(u[1], d[1]) THEN Bool(FALSE)
        ELSE IF ~point_eq(u[ulen], d[dlen]) THEN Bool(FALSE)
        ELSE IF ulen < 2 THEN Panic
        ELSE IF \E i \in 1..(ulen - 2) : ~u_ok(i) THEN Bool(FALSE)
        ELSE IF dlen < 2 THEN Panic
        ELSE IF \E i \in 1..(dlen - 2) : ~d_ok(i) THEN Bool(FALSE)
        ELSE Bool(TRUE)

\* The sum over i in 1 .. len - 1 (0-based) of (h[i+1] - h[0]) ^ (h[i] - h[0]).
RECURSIVE fan(_, _)
fan(h, i) ==
    IF i + 1 > Len(h) THEN 0
    ELSE cross(sub(h[i + 1], h[1]), sub(h[i], h[1])) + fan(h, i + 1)

\* A plausible bug: the loop over d_hull is left out.
area_upper_only(u, d) ==
    IF Len(u) = 0 \/ Len(d) = 0 THEN Panic
    ELSE [kind |-> "F64", num |-> fan(u, 2), den |-> 2]

\* ConvexHull::area: ans / 2.0, kept as the fraction num / den of a unit.
\* ulen - 1 and dlen - 1 underflow on an empty chain.
area(u, d) ==
    IF Len(u) = 0 \/ Len(d) = 0 THEN Panic
    ELSE [kind |-> "F64", num |-> fan(u, 2) - fan(d, 2), den |-> 2]

reverse(s) == [i \in 1..Len(s) |-> s[Len(s) + 1 - i]]
\* Vec::pop: nothing to remove from an empty Vec.
pop(s) == IF Len(s) = 0 THEN s ELSE Front(s)

\* ConvexHull::get_points
get_points(u, d) ==
    LET u_copy == pop(reverse(u))
        d_copy == pop(d)
    IN  [kind |-> "Points", val |-> d_copy \o u_copy]

NoCall == [op |-> "none"]
NoRet == [kind |-> "none"]

Init ==
    /\ scale \in HullScales
    /\ pts \in HullInputs(scale)
    /\ pc = "sort"
    /\ sorted = <<>>
    /\ idx = 0
    /\ u_hull = <<>>
    /\ d_hull = <<>>
    /\ call = NoCall
    /\ ret = NoRet

\* get_convex_hull, line 134
Sort ==
    /\ pc = "sort"
    /\ sorted' = sort_by(pts)
    /\ pc' = "sweep"
    /\ UNCHANGED <<scale, pts, idx, u_hull, d_hull, call, ret>>

\* get_convex_hull, lines 135-148: one iteration of `for p in pts`
Sweep ==
    /\ pc = "sweep"
    /\ idx < Len(sorted)
    /\ LET p == sorted[idx + 1]
       IN  /\ u_hull' = Append(u_while(u_hull, p), p)
           /\ d_hull' = Append(d_while(d_hull, p), p)
    /\ idx' = idx + 1
    /\ UNCHANGED <<scale, pc, pts, sorted, call, ret>>

\* get_convex_hull, line 150
Return ==
    /\ pc = "sweep"
    /\ idx = Len(sorted)
    /\ pc' = "done"
    /\ UNCHANGED <<scale, pts, sorted, idx, u_hull, d_hull, call, ret>>

Query(op, r) ==
    /\ pc = "done"
    /\ pc' = "queried"
    /\ call' = [op |-> op]
    /\ ret' = r
    /\ UNCHANGED <<scale, pts, sorted, idx, u_hull, d_hull>>

CallValid == Query("valid", valid(u_hull, d_hull))
CallArea == Query("area", area(u_hull, d_hull))
CallGetPoints == Query("get_points", get_points(u_hull, d_hull))

Next ==
    \/ Sort
    \/ Sweep
    \/ Return
    \/ CallValid
    \/ CallArea
    \/ CallGetPoints

Spec == Init /\ [][Next]_vars

\* The runs whose coordinates are eq_f64 only when equal, where pt_cmp is
\* the exact lexicographic order.
InitExact == Init /\ scale \in {0, 16}
SpecExact == InitExact /\ [][Next]_vars

---------------------------------------------------------------------------
(* Vocabulary of the claims about the hull *)

Returned == pc \in {"done", "queried"}
Asked(op) == pc = "queried" /\ call.op = op

\* m is a minimum (maximum) of the sequence s under pt_cmp.
IsMin(m, s) == \A i \in 1..Len(s) : pt_cmp(m, s[i]) # "Greater"
IsMax(m, s) == \A i \in 1..Len(s) : pt_cmp(m, s[i]) # "Less"

\* pt_cmp orders the points of s consistently: "not Greater" is transitive.
Le(a, b) == pt_cmp(a, b) # "Greater"
Consistent(s) ==
    \A i, j, k \in 1..Len(s) : Le(s[i], s[j]) /\ Le(s[j], s[k]) => Le(s[i], s[k])

\* The turn of the triple h[i], h[i+1], h[i+2].
Turn(h, i) == cross(sub(h[i + 1], h[i]), sub(h[i + 2], h[i]))
\* x <= -EPS and x >= EPS
le_neg_EPS(x, dim) == ~gt_neg_EPS(x, dim)
ge_EPS(x, dim) == ~lt_EPS(x, dim)

\* Every cross product of differences of points of s is within EPS of zero.
Collinear(s) ==
    \A i, j, k \in 1..Len(s) : eq_f64(cross(sub(s[j], s[i]), sub(s[k], s[i])), 0, "xy")
TwoDistinct(s) == \E i, j \in 1..Len(s) : s[i] # s[j]

NoDup(s) == \A i, j \in 1..Len(s) : i < j => ~point_eq(s[i], s[j])
Count(s, v) == Cardinality({i \in 1..Len(s) : s[i] = v})
Range(s) == {s[i] : i \in 1..Len(s)}

\* p is on or inside the hull within EPS: not above an edge of the upper
\* chain nor below an edge of the lower chain by more than EPS, and not
\* left of the first nor right of the last chain point by EPS or more.
Inside(p) ==
    /\ \A j \in 1..(Len(u_hull) - 1) :
          lt_EPS(cross(sub(u_hull[j + 1], u_hull[j]), sub(p, u_hull[j])), "xy")
    /\ \A j \in 1..(Len(d_hull) - 1) :
          gt_neg_EPS(cross(sub(d_hull[j + 1], d_hull[j]), sub(p, d_hull[j])), "xy")
    /\ gt_neg_EPS(p.x - u_hull[1].x, "x")
    /\ lt_EPS(p.x - Last(u_hull).x, "x")

---------------------------------------------------------------------------
\* C1: every point of a non-empty input lies on or inside the returned hull
\* within EPS.
C1_Containment ==
    (Returned /\ Len(pts) > 0) => \A i \in 1..Len(pts) : Inside(pts[i])

\* The chains share their ends, the sweep keeps the first pushed point at
\* the bottom of both stacks and leaves the last consumed point on top.
SharedEnds ==
    (pc \in {"sweep", "done", "queried"} /\ idx > 0) =>
        /\ u_hull[1] = sorted[1] /\ d_hull[1] = sorted[1]
        /\ Last(u_hull) = sorted[idx] /\ Last(d_hull) = sorted[idx]
        /\ (Returned => idx = Len(pts))

\* C2 (as stated): the shared ends are the minimum and the maximum of the
\* input under pt_cmp, for every non-empty input.
C2_Original ==
    /\ SharedEnds
    /\ (Returned /\ Len(pts) > 0) =>
          IsMin(u_hull[1], pts) /\ IsMax(Last(u_hull), pts)

\* C2 (amended): the shared ends are the first and last point of the sorted
\* input; they are the minimum and maximum under pt_cmp when pt_cmp orders
\* the input consistently.
C2_SharedExtremes ==
    /\ SharedEnds
    /\ (Returned /\ Len(pts) > 0 /\ Consistent(pts)) =>
          IsMin(u_hull[1], pts) /\ IsMax(Last(u_hull), pts)

C2_Witness ==
    /\ pc = "done" /\ Len(pts) >= 3 /\ Consistent(pts)
    /\ pts[1] # sorted[1] /\ Last(pts) # Last(sorted)
    /\ Len(u_hull) >= 3

\* C3: after every iteration of the sweep every consecutive triple of
\* u_hull turns clockwise and every one of d_hull counter-clockwise, beyond
\* EPS; valid() is true of the hull of two or more points.
C3_StrictTurns ==
    /\ \A i \in 1..(Len(u_hull) - 2) : le_neg_EPS(Turn(u_hull, i), "xy")
    /\ \A i \in 1..(Len(d_hull) - 2) : ge_EPS(Turn(d_hull, i), "xy")
    /\ (Returned /\ Len(pts) >= 2) => valid(u_hull, d_hull) = Bool(TRUE)
    /\ (Asked("valid") /\ Len(pts) >= 2) => ret = Bool(TRUE)

C3_Witness ==
    /\ Asked("valid") /\ ret = Bool(TRUE)
    /\ Len(u_hull) >= 3 /\ Len(d_hull) >= 3

\* p is strictly inside a triangle of three input points.
StrictlyInterior(p) ==
    \E i, j, k \in 1..Len(pts) :
        /\ cross(sub(pts[j], pts[i]), sub(p, pts[i])) > 0
        /\ cross(sub(pts[k], pts[j]), sub(p, pts[j])) > 0
        /\ cross(sub(pts[i], pts[k]), sub(p, pts[k])) > 0

\* C4: get_points() is d_hull then u_hull reversed, each hull vertex in it
\* exactly once, and no strictly interior input point in it.
C4_Boundary ==
    Asked("get_points") =>
        /\ ret.val = pop(d_hull) \o pop(reverse(u_hull))
        /\ \A v \in Range(u_hull) \cup Range(d_hull) : Count(ret.val, v) = 1
        /\ \A i \in 1..Len(ret.val) : ~StrictlyInterior(ret.val[i])

\* C5: the hull of one point p has both chains [p] and get_points() = [p];
\* the hull of two distinct points has both chains [min, max].
C5_SmallInputs ==
    /\ (Returned /\ Len(pts) = 1) => u_hull = pts /\ d_hull = pts
    /\ (Asked("get_points") /\ Len(pts) = 1) => ret.val = pts
    /\ (Returned /\ Len(pts) = 2 /\ pts[1] # pts[2]) =>
          /\ u_hull = d_hull /\ Len(u_hull) = 2
          /\ IsMin(u_hull[1], pts) /\ IsMax(u_hull[2], pts)

\* C6: neither chain nor get_points() holds two EPS-equal points.
C6_NoDuplicates ==
    /\ Returned => NoDup(u_hull) /\ NoDup(d_hull)
    /\ Asked("get_points") => NoDup(ret.val)

\* C7 (as stated): for two or more distinct points, all collinear, both
\* chains are [minimum, maximum] and the area is 0.
C7_Original ==
    (Returned /\ TwoDistinct(pts) /\ Collinear(pts)) =>
        /\ u_hull = d_hull /\ Len(u_hull) = 2
        /\ IsMin(u_hull[1], pts) /\ IsMax(u_hull[2], pts)
        /\ area(u_hull, d_hull).num = 0

\* C7 (amended): both chains are [first, last] of the sorted input, the
\* minimum and maximum when pt_cmp orders the input consistently, and the
\* area is 0.
C7_Collinear ==
    /\ (Returned /\ TwoDistinct(pts) /\ Collinear(pts)) =>
          /\ u_hull = <<sorted[1], Last(sorted)>> /\ d_hull = u_hull
          /\ Consistent(pts) => IsMin(u_hull[1], pts) /\ IsMax(u_hull[2], pts)
          /\ area(u_hull, d_hull).num = 0
    /\ (Asked("area") /\ TwoDistinct(pts) /\ Collinear(pts)) => ret.num = 0

C7_Witness ==
    /\ Asked("area") /\ Len(pts) >= 4 /\ Collinear(pts) /\ Consistent(pts)
    /\ \E i, j, k \in 1..Len(pts) : cross(sub(pts[j], pts[i]), sub(pts[k], pts[i])) # 0
    /\ \A i, j \in 1..Len(pts) : i < j => pts[i] # pts[j]
    /\ ret.num = 0

\* Twice the shoelace area of the polygon poly[1], ..., poly[n], closed
\* from poly[n] back to poly[1]: the sum of poly[i] ^ poly[i+1].
RECURSIVE shoelace_from(_, _)
shoelace_from(poly, i) ==
    IF i > Len(poly) THEN 0
    ELSE cross(poly[i], poly[IF i = Len(poly) THEN 1 ELSE i + 1])
            + shoelace_from(poly, i + 1)

Shoelace(poly) == shoelace_from(poly, 1)

C12_QueriesReturn ==
    /\ Returned =>
          /\ valid(u_hull, d_hull) # Panic
          /\ area(u_hull, d_hull) # Panic
          /\ get_points(u_hull, d_hull) # Panic
    /\ pc = "queried" => ret # Panic

---------------------------------------------------------------------------
(* line.rs *)

\* Line::vec, Line::sqrlen for the line through a and b
vec(a, b) == sub(b, a)
sqrlen(a, b) == sqrdis(vec(a, b))

\* Line::valid: !eq_f64(self.vec().dis(), 0.0), where dis() is the square
\* root of sqrdis(): sqrt(s) < EPS exactly when s < EPS^2.
line_valid(a, b) == ~(sqrdis(vec(a, b)) <= EPS_squared(scale))

\* Line::proj: self.a + self.vec() * (((p - self.a) * self.vec()) / self.sqrlen()).
\* There is no guard: on a line of length zero the quotient is 0.0 / 0.0,
\* a NaN, and so are both coordinates of the Point returned.  Otherwise the
\* coordinates are the fractions xnum / den and ynum / den of a unit (the
\* f64 result is this value rounded).
proj(a, b, p) ==
    LET s == sqrlen(a, b)
        t == dot(sub(p, a), vec(a, b))
    IN  IF s = 0
        THEN [kind |-> "Point", nan |-> TRUE]
        ELSE [kind |-> "Point", nan |-> FALSE,
              xnum |-> a.x * s + vec(a, b).x * t,
              ynum |-> a.y * s + vec(a, b).y * t,
              den |-> s]

---------------------------------------------------------------------------
(* round.rs *)

None == [kind |-> "None"]
Some(xnum, ynum, den) == [kind |-> "Some", xnum |-> xnum, ynum |-> ynum, den |-> den]

\* circum, lines 160-168: the centre as the fractions xnum / den, ynum / den.
circum_centre(a, b, c) ==
    LET v1 == scale_by(sub(b, a), 2)
        v2 == scale_by(sub(c, b), 2)
        c1 == sqrdis(b) - sqrdis(a)
        c2 == sqrdis(c) - sqrdis(b)
    IN  Some(c1 * v2.y - c2 * v1.y, c2 * v1.x - c1 * v2.x, cross(v1, v2))

circum(a, b, c) ==
    IF point_eq(a, b) /\ point_eq(b, c) THEN Some(a.x, a.y, 1)
    ELSE IF eq_f64(cross(sub(b, a), sub(c, a)), 0, "xy") THEN None
    ELSE circum_centre(a, b, c)

---------------------------------------------------------------------------
(* The pure functions, each applied once to arguments drawn at the start *)

GeomOps == {"pt_cmp", "proj", "circum"}

InitGeom ==
    /\ scale \in Scales
    /\ pc = "geom"
    /\ pts = <<>>
    /\ sorted = <<>>
    /\ idx = 0
    /\ u_hull = <<>>
    /\ d_hull = <<>>
    /\ call \in [op : GeomOps, a : GeomPts, b : GeomPts, c : GeomPts]
    /\ ret = NoRet

Apply(op, r) ==
    /\ pc = "geom"
    /\ call.op = op
    /\ pc' = "returned"
    /\ ret' = r
    /\ UNCHANGED <<scale, pts, sorted, idx, u_hull, d_hull, call>>

\* pt_cmp on the pairs of a, b, c
ApplyPtCmp ==
    Apply("pt_cmp", [ab |-> pt_cmp(call.a, call.b), ba |-> pt_cmp(call.b, call.a),
                     bc |-> pt_cmp(call.b, call.c), ac |-> pt_cmp(call.a, call.c)])
\* Line::new(a, b).proj(c)
ApplyProj == Apply("proj", proj(call.a, call.b, call.c))
ApplyCircum == Apply("circum", circum(call.a, call.b, call.c))

NextGeom ==
    \/ ApplyPtCmp
    \/ ApplyProj
    \/ ApplyCircum

SpecGeom == InitGeom /\ [][NextGeom]_vars

Applied(op) == pc = "returned" /\ call.op = op

Reverse(o) == CASE o = "Less" -> "Greater" [] o = "Greater" -> "Less" [] o = "Equal" -> "Equal"

\* Two coordinates are equal or not eq_f64; so are all of a, b, c, per axis
\* (the two axes have one unit where pt_cmp is applied on its own).
Apart(m, n) == m = n \/ ~eq_f64(m, n, "x")
Separated(a, b, c) ==
    /\ Apart(a.x, b.x) /\ Apart(b.x, c.x) /\ Apart(a.x, c.x)
    /\ Apart(a.y, b.y) /\ Apart(b.y, c.y) /\ Apart(a.y, c.y)

Transitive(r) ==
    /\ (r.ab = "Equal" /\ r.bc = "Equal") => r.ac = "Equal"
    /\ (r.ab = "Less" /\ r.bc = "Less") => r.ac = "Less"

\* C8 (as stated): pt_cmp is antisymmetric and transitive, in its Equal and
\* in its Less outcome, for all a, b, c.
C8_Original ==
    Applied("pt_cmp") => ret.ba = Reverse(ret.ab) /\ Transitive(ret)

\* C8 (amended): pt_cmp is antisymmetric for all a, b; it is transitive for
\* a, b, c whose coordinates, per axis, are pairwise equal or not within EPS.
C8_Order ==
    Applied("pt_cmp") =>
        /\ ret.ba = Reverse(ret.ab)
        /\ Separated(call.a, call.b, call.c) => Transitive(ret)

C8_Witness ==
    /\ Applied("pt_cmp") /\ scale = 30
    /\ Separated(call.a, call.b, call.c)
    /\ call.a.x = call.b.x /\ call.b.x # call.c.x
    /\ ret.ab = "Less" /\ ret.bc = "Less" /\ ret.ac = "Less" /\ ret.ba = "Greater"

\* C9: proj on a line that is not valid() signals an explicit failure and
\* returns no Point.
C9_ProjFails ==
    (Applied("proj") /\ ~line_valid(call.a, call.b)) => ret.kind = "Failure"

\* C10: circum is None whenever the cross product of b - a and c - a is
\* within EPS of zero, coincident points included, and Some only when it
\* is not.
C10_CollinearNone ==
    Applied("circum") =>
        (ret = None <=> eq_f64(cross(sub(call.b, call.a), sub(call.c, call.a)), 0, "xy"))

====
